---- MODULE Spec2Model ----
(***************************************************************************)
(* A model of Agent/tutorials/hyperopt_tutorial_files/hyperopt_utils.py.   *)
(*                                                                         *)
(* Python strings are sequences of one-character strings.  Python indices  *)
(* are 0-based and are kept 0-based in every field that the code exposes   *)
(* (start_ind, ind, end_ind, the loop counters); At and Slice translate.   *)
(*                                                                         *)
(* Every function of the file is modelled the same way: XInit builds the   *)
(* locals on entry, XStep is one iteration of its loop (or its return or   *)
(* raise), XRun iterates XStep to the end.  A raised exception is a        *)
(* terminal pc naming the exception.                                       *)
(***************************************************************************)
EXTENDS Integers, Sequences, FiniteSets, TLC

VARIABLES fm, seg, ta, pf, ah, prev

vars == <<fm, seg, ta, pf, ah, prev>>

\* The value of a component that the specification at hand does not run.
Idle == [pc |-> "idle"]

-----------------------------------------------------------------------------
(* Strings *)

NL == "\n"
SQ == "'"
DQ == "\""

\* Python s[i]
At(s, i) == s[i + 1]

\* Python s[a:b] for 0 <= a and b <= len(s) (empty when b <= a)
Slice(s, a, b) == SubSeq(s, a + 1, b)

\* Python s[a:]
From(s, a) == SubSeq(s, a + 1, Len(s))

\* All strings over alphabet A of length at most n
StringsUpTo(A, n) == UNION {[1..k -> A] : k \in 0..n}

\* Python s.count(c) for a one-character c
Count(s, c) == Cardinality({k \in 1..Len(s) : s[k] = c})

\* Characters Python's str.isspace / the regex class \s accept (those drawn here)
IsSpace(c) == c \in {" ", NL}

-----------------------------------------------------------------------------
(* find_matching_parenthesis *)

\* parenthesis_pairs, as the dict {p[0]: p[1] for p in parenthesis_pairs}
Matching(parenthesis_type) ==
    CASE parenthesis_type = "(" -> ")"
      [] parenthesis_type = "{" -> "}"
      [] parenthesis_type = "[" -> "]"
      [] parenthesis_type = SQ -> SQ
      [] parenthesis_type = DQ -> DQ

\* Entry: the assert on line[start_ind], the lookup of matching, n_open = 1,
\* and the range's first index.
FmpInit(line, start_ind, parenthesis_type) ==
    [line |-> line, start_ind |-> start_ind, parenthesis_type |-> parenthesis_type,
     matching |-> Matching(parenthesis_type),
     n_open |-> 1, i |-> start_ind + 1, result |-> -1,
     pc |-> IF At(line, start_ind) = parenthesis_type THEN "scan" ELSE "AssertionError"]

\* A plausible slip: the closing delimiter returns at once, nesting forgotten.
FmpStepNoNesting(st) ==
    IF st.i >= Len(st.line)
      THEN [st EXCEPT !.pc = "IndexError"]
      ELSE IF At(st.line, st.i) = st.matching
             THEN [st EXCEPT !.n_open = 0, !.result = st.i, !.pc = "returned"]
             ELSE [st EXCEPT !.i = st.i + 1]

\* One iteration of `for i in range(start_ind + 1, len(line))`, or the raise
\* after the loop.
FmpStep(st) ==
    IF st.i >= Len(st.line)
      THEN [st EXCEPT !.pc = "IndexError"]
      ELSE IF At(st.line, st.i) = st.parenthesis_type
             THEN [st EXCEPT !.n_open = st.n_open + 1, !.i = st.i + 1]
             ELSE IF At(st.line, st.i) = st.matching
                    THEN IF st.n_open - 1 = 0
                           THEN [st EXCEPT !.n_open = 0, !.result = st.i,
                                           !.pc = "returned"]
                           ELSE [st EXCEPT !.n_open = st.n_open - 1, !.i = st.i + 1]
                    ELSE [st EXCEPT !.i = st.i + 1]

RECURSIVE FmpRun(_)
FmpRun(st) == IF st.pc = "scan" THEN FmpRun(FmpStep(st)) ELSE st

find_matching_parenthesis(line, start_ind, parenthesis_type) ==
    FmpRun(FmpInit(line, start_ind, parenthesis_type))

\* Inputs of the matcher.
MaxMatchLen == 4
MatchAlphabet == {"(", ")", "{", "}", "[", "]", SQ, DQ, "a"}
Openers == {"(", "{", "[", SQ, DQ}
Brackets == {"(", "{", "["}
ExampleLine == <<"f", "(", "a", ",", "b", ")">>
MatchLines == StringsUpTo(MatchAlphabet, MaxMatchLen) \cup {ExampleLine}

MatchInit ==
    /\ \E line \in MatchLines :
         \E start_ind \in 0..(Len(line) - 1) :
           \E parenthesis_type \in Openers :
             fm = FmpInit(line, start_ind, parenthesis_type)
    /\ seg = Idle /\ ta = Idle /\ pf = Idle /\ ah = Idle /\ prev = Idle

MatchScan ==
    /\ fm.pc = "scan"
    /\ fm' = FmpStep(fm)
    /\ UNCHANGED <<seg, ta, pf, ah, prev>>

MatchNext == MatchScan

SpecMatch == MatchInit /\ [][MatchNext]_vars

\* The nesting counter of the claim, stated over the text: 1 after start_ind,
\* +1 per further opening delimiter and -1 per closing delimiter up to j.
Depth(line, s, j, open, close) ==
    1 + Cardinality({k \in (s + 1)..j : At(line, k) = open})
      - Cardinality({k \in (s + 1)..j : At(line, k) = close})

ZeroPoints(line, s, open, close) ==
    {j \in (s + 1)..(Len(line) - 1) : Depth(line, s, j, open, close) = 0}

SetMin(S) == CHOOSE x \in S : \A y \in S : x <= y

FmpTerminal == fm.pc \in {"returned", "IndexError"}

\* C6: for an opening bracket ( { [ at start_ind the matcher returns the
\* smallest later index at which the nesting counter reaches zero, that index
\* holds the closing bracket, and it raises the not-found condition exactly
\* when there is no such index; match_delimiter("f(a,b)", 1, "(") is 5.
C6_MatchBrackets ==
    (FmpTerminal /\ fm.parenthesis_type \in Brackets) =>
      LET Z == ZeroPoints(fm.line, fm.start_ind, fm.parenthesis_type, fm.matching)
      IN /\ (Z = {}) <=> (fm.pc = "IndexError")
         /\ Z # {} => /\ fm.result = SetMin(Z)
                      /\ fm.result > fm.start_ind
                      /\ At(fm.line, fm.result) = fm.matching
         /\ (fm.line = ExampleLine /\ fm.start_ind = 1) => fm.result = 5

\* A nested pair was scanned before the matching bracket was returned.
C6_Witness ==
    /\ fm.pc = "returned"
    /\ fm.parenthesis_type \in Brackets
    /\ \E k \in (fm.start_ind + 1)..(fm.result - 1) :
         At(fm.line, k) = fm.parenthesis_type

\* C7: for a quote character at start_ind that occurs again later, the
\* matcher returns the index of that next occurrence instead of failing.
C7_MatchQuotes ==
    (FmpTerminal /\ fm.parenthesis_type \in {SQ, DQ}) =>
      LET later == {j \in (fm.start_ind + 1)..(Len(fm.line) - 1) :
                      At(fm.line, j) = fm.parenthesis_type}
      IN later # {} => (fm.pc = "returned" /\ fm.result = SetMin(later))

-----------------------------------------------------------------------------
(* convert_to_single_line_blocks *)

\* Python code.split("\n")
RECURSIVE SplitLines(_)
SplitLines(s) ==
    LET cut == {k \in 1..Len(s) : s[k] = NL}
    IN IF cut = {}
         THEN <<s>>
         ELSE LET k == SetMin(cut)
              IN <<SubSeq(s, 1, k - 1)>> \o SplitLines(SubSeq(s, k + 1, Len(s)))

\* Python s.strip()
RECURSIVE Strip(_)
Strip(s) ==
    IF s = <<>> THEN s
    ELSE IF IsSpace(Head(s)) THEN Strip(Tail(s))
    ELSE IF IsSpace(s[Len(s)]) THEN Strip(SubSeq(s, 1, Len(s) - 1))
    ELSE s

\* The class [?,.!"] of the pattern
Punct == {"?", ",", ".", "!", DQ}

\* The regular expression (\s([?,.!"]))|(?<=\[|\()(.*?)(?=\)|\]) matched at
\* index b: the end of the match (exclusive), or -1.  The first alternative
\* is tried first; the second is lazy, so it ends at the first ) or ] at or
\* after b, and after b when an empty match is not allowed there.
MatchEnd(s, b, nonempty) ==
    IF b + 1 < Len(s) /\ IsSpace(At(s, b)) /\ At(s, b + 1) \in Punct
      THEN b + 2
      ELSE LET from == IF nonempty THEN b + 1 ELSE b
               E == {e \in from..(Len(s) - 1) :
                       /\ At(s, e) \in {")", "]"}
                       /\ \A k \in b..(e - 1) : At(s, k) # NL}
           IN IF b > 0 /\ At(s, b - 1) \in {"[", "("} /\ E # {}
                THEN SetMin(E)
                ELSE -1

\* The indices from pos on at which the pattern matches.
MatchStarts(s, pos, must_advance) ==
    {b \in pos..Len(s) : MatchEnd(s, b, must_advance /\ b = pos) # -1}

\* re.sub(pattern, lambda x: x.group().strip(), s) from index pos on: the
\* leftmost match [b, e) is replaced by its stripped text and the scan
\* resumes at its end; after an empty match the next one must advance.
RECURSIVE RegexSubFrom(_, _, _)
RegexSubMatch(s, pos, b, e) ==
    Slice(s, pos, b) \o Strip(Slice(s, b, e)) \o RegexSubFrom(s, e, e = b)

RegexSubLeftmost(s, pos, must_advance, b) ==
    RegexSubMatch(s, pos, b, MatchEnd(s, b, must_advance /\ b = pos))

RegexSubSearch(s, pos, must_advance, B) ==
    IF B = {} THEN From(s, pos)
    ELSE RegexSubLeftmost(s, pos, must_advance, SetMin(B))

RegexSubFrom(s, pos, must_advance) ==
    RegexSubSearch(s, pos, must_advance, MatchStarts(s, pos, must_advance))

RegexSub(s) == RegexSubFrom(s, 0, FALSE)

\* Entry of convert_to_single_line_blocks (text keeps the argument).
SegInit(code) ==
    [text |-> code, code |-> SplitLines(code), i |-> 0, new_block |-> <<>>,
     n_diff |-> 0, blocks |-> <<>>, pc |-> "loop"]

\* The body of the loop for one physical line: n is n_diff after line 22, nb
\* is new_block after line 24.
SegLine(st, n, nb) ==
    IF n < 0
      THEN [st EXCEPT !.n_diff = n, !.pc = "AssertionError"]
      ELSE IF n = 0
             THEN [st EXCEPT !.blocks = Append(st.blocks, nb),
                             !.new_block = <<>>, !.n_diff = 0, !.i = st.i + 1]
             ELSE [st EXCEPT !.new_block = nb, !.n_diff = n, !.i = st.i + 1]

\* n_diff += code[i].count("(") - code[i].count(")")
NDiff(st, line) == st.n_diff + Count(line, "(") - Count(line, ")")

\* One iteration of `while i < len(code)`, or the assert and return after it.
SegStep(st) ==
    IF st.i < Len(st.code)
      THEN SegLine(st, NDiff(st, At(st.code, st.i)),
                   st.new_block \o RegexSub(At(st.code, st.i)))
      ELSE IF st.n_diff = 0
             THEN [st EXCEPT !.pc = "returned"]
             ELSE [st EXCEPT !.pc = "AssertionError"]

RECURSIVE SegRun(_)
SegRun(st) == IF st.pc = "loop" THEN SegRun(SegStep(st)) ELSE st

convert_to_single_line_blocks(code) == SegRun(SegInit(code))

\* Inputs of the segmenter.
MaxCodeLen == 5
SegAlphabet == {"(", ")", " ", NL, "a", ","}

SegmentInit ==
    /\ \E code \in StringsUpTo(SegAlphabet, MaxCodeLen) : seg = SegInit(code)
    /\ fm = Idle /\ ta = Idle /\ pf = Idle /\ ah = Idle /\ prev = Idle

SegmentLine ==
    /\ seg.pc = "loop"
    /\ seg' = SegStep(seg)
    /\ UNCHANGED <<fm, ta, pf, ah, prev>>

SegmentNext == SegmentLine

SpecSegment == SegmentInit /\ [][SegmentNext]_vars

SegTerminal == seg.pc \in {"returned", "AssertionError"}

\* Some prefix of s holds more ")" than "(".
StrayClose(s) ==
    \E k \in 1..Len(s) : Count(SubSeq(s, 1, k), ")") > Count(SubSeq(s, 1, k), "(")

Balanced(s) == ~StrayClose(s) /\ Count(s, "(") = Count(s, ")")

\* C5: an input in which a closing parenthesis occurs where no opening one is
\* unmatched is rejected, also when an opening parenthesis later on the same
\* physical line restores the count; so every returned statement is balanced.
C5_StrayCloseRejected ==
    SegTerminal =>
      /\ StrayClose(seg.text) => seg.pc = "AssertionError"
      /\ seg.pc = "returned" =>
           \A n \in 1..Len(seg.blocks) : Balanced(seg.blocks[n])

IsWord(c) == c \notin {"(", ")", "[", "]", "{", "}", " ", NL, ",", "=", "+", SQ, DQ}

\* The lexical tokens of s: maximal runs of word characters, and every other
\* character that is not white space on its own.
RECURSIVE TokensFrom(_, _)
TokensFrom(s, p) ==
    IF p >= Len(s) THEN <<>>
    ELSE IF IsSpace(At(s, p)) THEN TokensFrom(s, p + 1)
    ELSE IF IsWord(At(s, p))
      THEN LET stop == {e \in (p + 1)..Len(s) : e = Len(s) \/ ~IsWord(At(s, e))}
               e == SetMin(stop)
           IN <<Slice(s, p, e)>> \o TokensFrom(s, e)
      ELSE <<<<At(s, p)>>>> \o TokensFrom(s, p + 1)

Tokens(s) == TokensFrom(s, 0)

RECURSIVE Flatten(_)
Flatten(ss) == IF ss = <<>> THEN <<>> ELSE Head(ss) \o Flatten(Tail(ss))

NonSpace(s) == SelectSeq(s, LAMBDA c : ~IsSpace(c))

BlockTokens(blocks) == Flatten([n \in 1..Len(blocks) |-> Tokens(blocks[n])])

\* C8: for a balanced input the returned statements, taken in order, hold the
\* non-blank characters of the input in the same sequence, and the same
\* tokens: joining physical lines drops, reorders and fuses none.
C8_TokenStreamKept ==
    (seg.pc = "returned" /\ Balanced(seg.text)) =>
      /\ NonSpace(Flatten(seg.blocks)) = NonSpace(seg.text)
      /\ BlockTokens(seg.blocks) = Tokens(seg.text)

-----------------------------------------------------------------------------
(* Values, and parse_function_call *)

\* A Python value: a str (v its characters), or another literal (a number, a
\* list), which the code only ever formats, held as the text str() gives it.
StrVal(chars) == [t |-> "str", v |-> chars]
LitVal(text) == [t |-> "lit", v |-> text]
NoVal == [t |-> "none", v |-> <<>>]

\* An entry of the list parse_function_call returns: a positional argument's
\* name, or the tuple (keyword, value).
Positional(name) == [kw |-> FALSE, k |-> name, val |-> NoVal]
Keyword(name, val) == [kw |-> TRUE, k |-> name, val |-> val]

Letters ==
    {"a", "b", "c", "d", "e", "f", "g", "h", "i", "j", "k", "l", "m", "n", "o",
     "p", "q", "r", "s", "t", "u", "v", "w", "x", "y", "z", "_"}
Digits == {"0", "1", "2", "3", "4", "5", "6", "7", "8", "9"}
Operators == {"(", ")", "[", "]", ",", "=", "+"}

Tok(kind, chars) == [k |-> kind, v |-> chars]
ErrTok == Tok("error", <<>>)
Op(c) == Tok("op", <<c>>)

\* The end (exclusive) of the run of characters of S that starts at p.
RunEnd(s, p, S) ==
    SetMin({e \in (p + 1)..Len(s) : e = Len(s) \/ At(s, e) \notin S})

\* The first index >= p at which the three characters q q q stand, or -1.
TripleAt(s, p, q) ==
    LET E == {e \in p..(Len(s) - 3) :
                At(s, e) = q /\ At(s, e + 1) = q /\ At(s, e + 2) = q}
    IN IF E = {} THEN -1 ELSE SetMin(E)

\* The tokens Python's tokenizer gives for the text of one call, as far as
\* the texts drawn here need it: names, decimal numerals, 'x' "x" and
\* triple-quoted strings (no backslash, no prefix letter), the operators
\* above.  What it rejects ends the sequence with ErrTok.
RECURSIVE Lex(_, _)
Lex(s, p) ==
    IF p >= Len(s) THEN <<>>
    ELSE LET c == At(s, p) IN
      IF c = " " THEN Lex(s, p + 1)
      ELSE IF c \in Letters
        THEN LET e == RunEnd(s, p, Letters \cup Digits)
             IN IF e < Len(s) /\ At(s, e) \in {SQ, DQ}
                  THEN <<ErrTok>>
                  ELSE <<Tok("name", Slice(s, p, e))>> \o Lex(s, e)
      ELSE IF c \in Digits
        THEN LET e1 == RunEnd(s, p, Digits)
                 e == IF e1 + 1 < Len(s) /\ At(s, e1) = "." /\ At(s, e1 + 1) \in Digits
                        THEN RunEnd(s, e1 + 1, Digits)
                        ELSE e1
             IN IF e < Len(s) /\ At(s, e) \in Letters \cup {"."}
                  THEN <<ErrTok>>
                  ELSE <<Tok("num", Slice(s, p, e))>> \o Lex(s, e)
      ELSE IF c \in {SQ, DQ}
        THEN IF p + 2 < Len(s) /\ At(s, p + 1) = c /\ At(s, p + 2) = c
               THEN LET e == TripleAt(s, p + 3, c)
                    IN IF e = -1
                         THEN <<ErrTok>>
                         ELSE <<Tok("str", Slice(s, p + 3, e))>> \o Lex(s, e + 3)
               ELSE LET E == {e \in (p + 1)..(Len(s) - 1) : At(s, e) = c}
                    IN IF E = {} \/ \E k \in (p + 1)..(SetMin(E) - 1) : At(s, k) = NL
                         THEN <<ErrTok>>
                         ELSE <<Tok("str", Slice(s, p + 1, SetMin(E)))>>
                                \o Lex(s, SetMin(E) + 1)
      ELSE IF c \in Operators THEN <<Op(c)>> \o Lex(s, p + 1)
      ELSE <<ErrTok>>

\* The pieces of token sequence T between its commas outside [ ].
RECURSIVE SplitArgs(_, _, _)
SplitArgs(T, depth, cur) ==
    IF T = <<>> THEN <<cur>>
    ELSE LET h == Head(T) IN
      IF h = Op(",") /\ depth = 0
        THEN <<cur>> \o SplitArgs(Tail(T), 0, <<>>)
        ELSE SplitArgs(Tail(T),
                       IF h = Op("[") THEN depth + 1
                       ELSE IF h = Op("]") THEN depth - 1 ELSE depth,
                       Append(cur, h))

\* Python's ', '.join(items)
RECURSIVE Join(_)
Join(items) ==
    IF items = <<>> THEN <<>>
    ELSE IF Len(items) = 1 THEN items[1]
    ELSE items[1] \o <<",", " ">> \o Join(Tail(items))

\* A trailing comma adds no item.
TrimParts(parts) ==
    IF Len(parts) >= 2 /\ parts[Len(parts)] = <<>>
      THEN SubSeq(parts, 1, Len(parts) - 1)
      ELSE parts

\* The items of a comma-separated token sequence (of a call, of a list).
Items(inner) ==
    TrimParts(IF inner = <<>> THEN <<>> ELSE SplitArgs(inner, 0, <<>>))

\* A list display from its items: a list of numerals, or NoVal.
ListVal(parts) ==
    IF \A n \in 1..Len(parts) : Len(parts[n]) = 1 /\ parts[n][1].k = "num"
      THEN LitVal(<<"[">> \o Join([n \in 1..Len(parts) |-> parts[n][1].v])
                    \o <<"]">>)
      ELSE NoVal

\* ast.literal_eval of a keyword's value, from its tokens: a numeral, one or
\* more adjacent string literals (which Python concatenates), or a list of
\* numerals.  NoVal for anything else.
LiteralEval(V) ==
    IF V = <<>> THEN NoVal
    ELSE IF \A n \in 1..Len(V) : V[n].k = "str"
      THEN StrVal(Flatten([n \in 1..Len(V) |-> V[n].v]))
    ELSE IF Len(V) = 1 /\ V[1].k = "num" THEN LitVal(V[1].v)
    ELSE IF Len(V) >= 2 /\ V[1] = Op("[") /\ V[Len(V)] = Op("]")
      THEN ListVal(Items(SubSeq(V, 2, Len(V) - 1)))
    ELSE NoVal

\* One argument from its tokens: NAME, or NAME = literal.  NoVal as the value
\* of a keyword, or the name <<>>, marks what the code fails on.
ParseOneArg(A) ==
    IF Len(A) = 1 /\ A[1].k = "name" THEN Positional(A[1].v)
    ELSE IF Len(A) >= 3 /\ A[1].k = "name" /\ A[2] = Op("=")
      THEN Keyword(A[1].v, LiteralEval(SubSeq(A, 3, Len(A))))
    ELSE Positional(<<>>)

ParseError == [ok |-> FALSE, args |-> <<>>]

\* The parsed arguments as the returned list, or ParseError: a piece that is
\* no argument, a keyword value that is no literal, a positional argument
\* after a keyword, a keyword repeated.
CheckArgs(parsed) ==
    IF \/ \E n \in 1..Len(parsed) :
            \/ parsed[n].k = <<>>
            \/ parsed[n].kw /\ parsed[n].val = NoVal
       \/ \E n, m \in 1..Len(parsed) :
            n < m /\ parsed[n].kw /\ ~parsed[m].kw
       \/ \E n, m \in 1..Len(parsed) :
            n < m /\ parsed[n].kw /\ parsed[m].kw /\ parsed[n].k = parsed[m].k
      THEN ParseError
      ELSE [ok |-> TRUE, args |-> parsed]

ParseParts(parts) == CheckArgs([n \in 1..Len(parts) |-> ParseOneArg(parts[n])])

\* The call NAME ( arguments ) from its tokens.
ParseTokens(T) ==
    IF \/ Len(T) < 3
       \/ \E n \in 1..Len(T) : T[n] = ErrTok
       \/ T[1].k # "name" \/ T[2] # Op("(") \/ T[Len(T)] # Op(")")
       \/ \E n \in 3..(Len(T) - 1) : T[n] \in {Op("("), Op(")")}
      THEN ParseError
      ELSE ParseParts(Items(SubSeq(T, 3, Len(T) - 1)))

\* parse_function_call: ast.parse of the text, the Call node's positional
\* names (arg.id), then its keywords with ast.literal_eval of their values.
\* A SyntaxError, AttributeError or ValueError on the way is ParseError.
parse_function_call(func_call_str) == ParseTokens(Lex(func_call_str, 0))

-----------------------------------------------------------------------------
(* transform_args *)

\* map_args is a dict: a sequence of [k, val] entries with distinct keys, in
\* insertion order, which is the order map_args.items() iterates in.
Entry(name, val) == [k |-> name, val |-> val]
HasKey(m, name) == \E n \in 1..Len(m) : m[n].k = name
Get(m, name) == m[CHOOSE n \in 1..Len(m) : m[n].k = name].val

\* parse_arg as the f-string renders its result: a str between single quotes,
\* anything else through format(), that is str().
parse_arg(arg_) ==
    IF arg_.t = "str" THEN <<SQ>> \o arg_.v \o <<SQ>> ELSE arg_.v

\* f"{k}={parse_arg(v)}, "
Assign(name, val) == name \o <<"=">> \o parse_arg(val) \o <<",", " ">>

TaInit(args, map_args) ==
    [args |-> args, map_args |-> map_args, output |-> <<>>, seen_args |-> {},
     i |-> 0, j |-> 0, pc |-> "args"]

\* A plausible slip: the overridden keyword is not recorded in seen_args.
TaStepNoSeen(st) ==
    IF st.pc = "args"
      THEN IF st.i < Len(st.args)
             THEN LET arg == At(st.args, st.i) IN
               IF ~arg.kw
                 THEN [st EXCEPT !.output = st.output \o arg.k \o <<",", " ">>,
                                 !.i = st.i + 1]
                 ELSE [st EXCEPT !.output = st.output \o
                                   Assign(arg.k, IF HasKey(st.map_args, arg.k)
                                                   THEN Get(st.map_args, arg.k)
                                                   ELSE arg.val),
                                 !.i = st.i + 1]
             ELSE [st EXCEPT !.pc = "items"]
      ELSE IF st.j < Len(st.map_args)
             THEN LET e == At(st.map_args, st.j) IN
                  [st EXCEPT !.output = st.output \o Assign(e.k, e.val),
                             !.j = st.j + 1]
             ELSE [st EXCEPT !.output =
                               IF Len(st.output) >= 2
                                  /\ From(st.output, Len(st.output) - 2) = <<",", " ">>
                                 THEN Slice(st.output, 0, Len(st.output) - 2)
                                 ELSE st.output,
                             !.pc = "returned"]

\* One iteration of `for arg in args`, one of `for arg, arg_val in
\* map_args.items()`, or the strip of the trailing ", " and the return.
TaStep(st) ==
    IF st.pc = "args"
      THEN IF st.i < Len(st.args)
             THEN LET arg == At(st.args, st.i) IN
               IF ~arg.kw
                 THEN [st EXCEPT !.output = st.output \o arg.k \o <<",", " ">>,
                                 !.i = st.i + 1]
                 ELSE IF ~HasKey(st.map_args, arg.k)
                   THEN [st EXCEPT !.output = st.output \o Assign(arg.k, arg.val),
                                   !.i = st.i + 1]
                   ELSE [st EXCEPT !.seen_args = st.seen_args \cup {arg.k},
                                   !.output = st.output \o
                                     Assign(arg.k, Get(st.map_args, arg.k)),
                                   !.i = st.i + 1]
             ELSE [st EXCEPT !.pc = "items"]
      ELSE IF st.j < Len(st.map_args)
             THEN LET e == At(st.map_args, st.j) IN
               IF e.k \in st.seen_args
                 THEN [st EXCEPT !.j = st.j + 1]
                 ELSE [st EXCEPT !.output = st.output \o Assign(e.k, e.val),
                                 !.j = st.j + 1]
             ELSE [st EXCEPT !.output =
                               IF Len(st.output) >= 2
                                  /\ From(st.output, Len(st.output) - 2) = <<",", " ">>
                                 THEN Slice(st.output, 0, Len(st.output) - 2)
                                 ELSE st.output,
                             !.pc = "returned"]

RECURSIVE TaRun(_)
TaRun(st) == IF st.pc = "returned" THEN st ELSE TaRun(TaStep(st))

transform_args(args, map_args) == TaRun(TaInit(args, map_args)).output

\* Inputs of the rewriter: argument lists as parse_function_call returns them
\* (positional names first, keywords distinct) and override mappings.
MaxStrLen == 1
ValChars == {"a", SQ}
StrVals == {StrVal(s) : s \in StringsUpTo(ValChars, MaxStrLen)}
LitVals == {LitVal(<<"1">>), LitVal(<<"[", "1", ",", " ", "2", "]">>)}
Values == StrVals \cup LitVals
PosNames == {<<"x">>, <<"k">>}
KeyNames == {<<"k">>, <<"m">>}

KeyPairs == {kk \in KeyNames \X KeyNames : kk[1] # kk[2]}

PosLists == {<<>>} \cup {<<Positional(n)>> : n \in PosNames}
KwLists ==
    {<<>>} \cup {<<Keyword(k, v)>> : k \in KeyNames, v \in Values}
           \cup {<<Keyword(kk[1], v1), Keyword(kk[2], v2)>> :
                   kk \in KeyPairs, v1 \in Values, v2 \in Values}
ArgLists == {p \o q : p \in PosLists, q \in KwLists}
Maps ==
    {<<>>} \cup {<<Entry(k, v)>> : k \in KeyNames, v \in Values}
           \cup {<<Entry(kk[1], v1), Entry(kk[2], v2)>> :
                   kk \in KeyPairs, v1 \in Values, v2 \in Values}

\* rewrite_args(["x", ("lr", 0.1)], {"lr": 0.01, "momentum": 0.9})
LR == <<"l", "r">>
MOMENTUM == <<"m", "o", "m", "e", "n", "t", "u", "m">>
ExampleArgs == <<Positional(<<"x">>), Keyword(LR, LitVal(<<"0", ".", "1">>))>>
ExampleMap == <<Entry(LR, LitVal(<<"0", ".", "0", "1">>)),
                Entry(MOMENTUM, LitVal(<<"0", ".", "9">>))>>
ExampleOutput ==
    <<"x", ",", " ", "l", "r", "=", "0", ".", "0", "1", ",", " ",
      "m", "o", "m", "e", "n", "t", "u", "m", "=", "0", ".", "9">>

ArgsInit ==
    /\ \E am \in (ArgLists \X Maps) \cup {<<ExampleArgs, ExampleMap>>} :
         ta = TaInit(am[1], am[2])
    /\ fm = Idle /\ seg = Idle /\ pf = Idle /\ ah = Idle /\ prev = Idle

ArgsStep ==
    /\ ta.pc \in {"args", "items"}
    /\ ta' = TaStep(ta)
    /\ UNCHANGED <<fm, seg, pf, ah, prev>>

\* The returned text, wrapped as f(<output>), handed to parse_function_call.
ArgsReparse ==
    /\ ta.pc = "returned"
    /\ pf.pc = "idle"
    /\ LET text == <<"f", "(">> \o ta.output \o <<")">>
       IN pf' = [pc |-> "parsed", func_call_str |-> text,
                 result |-> parse_function_call(text)]
    /\ UNCHANGED <<fm, seg, ta, ah, prev>>

ArgsNext == ArgsStep \/ ArgsReparse

SpecArgs == ArgsInit /\ [][ArgsNext]_vars

\* The value the rewrite policy gives original argument a under mapping m.
PolicyVal(a, m) == IF HasKey(m, a.k) THEN Get(m, a.k) ELSE a.val

\* The mapping's entries whose name is no keyword of args, in mapping order.
Appended(args, m) ==
    SelectSeq(m, LAMBDA e : \A n \in 1..Len(args) : ~(args[n].kw /\ args[n].k = e.k))

ItemText(name, val) == name \o <<"=">> \o parse_arg(val)

PolicyItems(args, m) ==
    [n \in 1..Len(args) |->
       IF args[n].kw THEN ItemText(args[n].k, PolicyVal(args[n], m)) ELSE args[n].k]
    \o [n \in 1..Len(Appended(args, m)) |->
          ItemText(Appended(args, m)[n].k, Appended(args, m)[n].val)]

\* C3: the output is the original arguments in order (positional names as they
\* are, keywords with the mapping's value when the mapping has the name),
\* then the mapping's entries that were no original keyword, once each and in
\* mapping order, joined by ", " with no trailing separator; the example
\* yields x, lr=0.01, momentum=0.9.
C3_RewritePolicy ==
    ta.pc = "returned" =>
      /\ ta.output = Join(PolicyItems(ta.args, ta.map_args))
      /\ (ta.args = ExampleArgs /\ ta.map_args = ExampleMap)
           => ta.output = ExampleOutput

\* A call with a positional argument and an overridden keyword has been
\* rewritten under a mapping that also has an entry to append.
C3_Witness ==
    /\ ta.pc = "returned"
    /\ \E n \in 1..Len(ta.args) : ~ta.args[n].kw
    /\ \E n \in 1..Len(ta.args) :
         /\ ta.args[n].kw
         /\ HasKey(ta.map_args, ta.args[n].k)
         /\ Get(ta.map_args, ta.args[n].k) # ta.args[n].val
    /\ Len(Appended(ta.args, ta.map_args)) = 1

\* The list parse_function_call would have to return for the rewritten call.
PolicyParsed(args, m) ==
    [n \in 1..Len(args) |->
       IF args[n].kw THEN Keyword(args[n].k, PolicyVal(args[n], m)) ELSE args[n]]
    \o [n \in 1..Len(Appended(args, m)) |->
          Keyword(Appended(args, m)[n].k, Appended(args, m)[n].val)]

\* C4: the output wrapped as f(<output>) parses, and parse_function_call
\* returns the positional names and the (keyword, value) pairs of the rewrite
\* policy, every string value equal to the one rendered.
C4_OutputParsesBack ==
    pf.pc = "parsed" =>
      /\ pf.result.ok
      /\ pf.result.args = PolicyParsed(ta.args, ta.map_args)

-----------------------------------------------------------------------------
(* assign_hyperopt *)

\* Python line.find(pattern)
Find(line, pattern) ==
    LET I == {i \in 0..(Len(line) - Len(pattern)) :
                Slice(line, i, i + Len(pattern)) = pattern}
    IN IF I = {} THEN -1 ELSE SetMin(I)

\* space is a dict of dicts: a sequence of [k, val] entries, val a mapping.
\* Entry: blackbox_code = "", arguments (a copy of space, entry by entry).
AhInit(code, space) ==
    [code |-> code, space |-> space, arguments |-> space, blocks |-> <<>>,
     bi |-> 0, fi |-> 0, line |-> <<>>, blackbox_code |-> <<>>, pc |-> "segment"]

\* pattern = f"{function}("
Pattern(function) == function \o <<"(">>

\* line = line[:ind] + pattern + transform_args(...) + line[end_ind:]
AhSplice(st, function, ind, end_ind, parsed) ==
    IF ~parsed.ok
      THEN [st EXCEPT !.pc = "ParseError"]
      ELSE [st EXCEPT
              !.line = Slice(st.line, 0, ind) \o Pattern(function)
                         \o transform_args(parsed.args, Get(st.arguments, function))
                         \o From(st.line, end_ind),
              !.fi = st.fi + 1]

\* args = parse_function_call(line[ind: end_ind + 1]), m the matcher's end.
AhMatched(st, function, ind, m) ==
    IF m.pc # "returned"
      THEN [st EXCEPT !.pc = m.pc]
      ELSE AhSplice(st, function, ind, m.result,
                    parse_function_call(Slice(st.line, ind, m.result + 1)))

\* `if ind != -1`, then the call of find_matching_parenthesis.
AhFound(st, function, ind) ==
    IF ind = -1
      THEN [st EXCEPT !.fi = st.fi + 1]
      ELSE AhMatched(st, function, ind,
                     find_matching_parenthesis(
                       st.line, ind + Len(Pattern(function)) - 1, "("))

AhLocate(st, function) == AhFound(st, function, Find(st.line, Pattern(function)))

\* The body of `for function in space` for the function at index fi.
AhRewrite(st) == AhLocate(st, At(st.space, st.fi).k)

\* blocks = convert_to_single_line_blocks(code); the first line is entered.
AhSegmented(st, r) ==
    IF r.pc # "returned"
      THEN [st EXCEPT !.pc = r.pc]
      ELSE [st EXCEPT !.blocks = r.blocks, !.pc = "lines",
                      !.line = IF r.blocks = <<>> THEN <<>> ELSE r.blocks[1]]

\* One step of assign_hyperopt: the call of convert_to_single_line_blocks
\* (which also enters the first line), one iteration of the inner loop, the
\* `blackbox_code += line + "\n"` that ends an outer iteration (which also
\* enters the next line), or the return.
AhStep(st) ==
    IF st.pc = "segment"
      THEN AhSegmented(st, convert_to_single_line_blocks(st.code))
      ELSE IF st.bi >= Len(st.blocks)
        THEN [st EXCEPT !.pc = "returned"]
        ELSE IF st.fi < Len(st.space)
          THEN AhRewrite(st)
          ELSE [st EXCEPT !.blackbox_code = st.blackbox_code \o st.line \o <<NL>>,
                          !.bi = st.bi + 1, !.fi = 0,
                          !.line = IF st.bi + 1 < Len(st.blocks)
                                     THEN At(st.blocks, st.bi + 1) ELSE <<>>]

AhRunning(st) == st.pc \in {"segment", "lines"}

RECURSIVE AhRun(_)
AhRun(st) == IF AhRunning(st) THEN AhRun(AhStep(st)) ELSE st

assign_hyperopt(code, space) == AhRun(AhInit(code, space))

\* Inputs of assign_hyperopt.  A statement is PREFIX call [ + call] and ends
\* with a newline or not; a call is one of three names around one of three
\* argument texts, the last of them broken over two physical lines.
G == <<"g">>
HG == <<"h", "g">>
Q == <<"q">>
FNames == {G, HG, Q}
TargetNames == {G, HG}

KEY == <<"k">>
MKEY == <<"m">>
ArgForms ==
    { [text |-> <<"k", "=", "1">>,
       args |-> <<Keyword(KEY, LitVal(<<"1">>))>>],
      [text |-> <<"k", "=", SQ, "a", SQ, ",", " ", "m", "=", "1">>,
       args |-> <<Keyword(KEY, StrVal(<<"a">>)), Keyword(MKEY, LitVal(<<"1">>))>>],
      [text |-> <<"x", ",", NL, "k", "=", "1">>,
       args |-> <<Positional(<<"x">>), Keyword(KEY, LitVal(<<"1">>))>>] }

Call(fn, argtext) == fn \o <<"(">> \o argtext \o <<")">>
Calls == {[fn |-> fn, form |-> a] : fn \in FNames, a \in ArgForms}
CallText(c) == Call(c.fn, c.form.text)

Prefixes == {<<>>, <<"y", " ", "=", " ">>}
Plus == <<" ", "+", " ">>
Terms == {<<>>, <<NL>>}

OneCall(pre, c, term) == pre \o CallText(c) \o term
TwoCalls(pre, c, d, term) == pre \o CallText(c) \o Plus \o CallText(d) \o term

Codes ==
    {OneCall(pre, c, term) : pre \in Prefixes, c \in Calls, term \in Terms}
      \cup {TwoCalls(pre, c, d, term) :
              pre \in Prefixes, c \in Calls, d \in Calls, term \in Terms}

SpaceMaps ==
    { <<Entry(KEY, LitVal(<<"2">>))>>,
      <<Entry(MKEY, StrVal(<<"g", "(">>))>>,
      <<Entry(KEY, StrVal(<<"a">>)), Entry(MKEY, LitVal(<<"1">>))>> }

Spaces ==
    {<<>>} \cup {<<Entry(fn, m)>> : fn \in TargetNames, m \in SpaceMaps}
           \cup {<<Entry(G, m1), Entry(HG, m2)>> : m1 \in SpaceMaps, m2 \in SpaceMaps}
           \cup {<<Entry(HG, m1), Entry(G, m2)>> : m1 \in SpaceMaps, m2 \in SpaceMaps}

\* inject("model = build(lr=0.1)\n", {"build": {"lr": 0.01, "momentum": 0.9}})
BUILD == <<"b", "u", "i", "l", "d">>
ExampleCode ==
    <<"m", "o", "d", "e", "l", " ", "=", " ", "b", "u", "i", "l", "d", "(",
      "l", "r", "=", "0", ".", "1", ")", NL>>
ExampleSpace == <<Entry(BUILD, ExampleMap)>>
ExampleResult ==
    <<"m", "o", "d", "e", "l", " ", "=", " ", "b", "u", "i", "l", "d", "(",
      "l", "r", "=", "0", ".", "0", "1", ",", " ",
      "m", "o", "m", "e", "n", "t", "u", "m", "=", "0", ".", "9", ")", NL>>

Init ==
    /\ \E cs \in (Codes \X Spaces) \cup {<<ExampleCode, ExampleSpace>>} :
         ah = AhInit(cs[1], cs[2])
    /\ prev = Idle
    /\ fm = Idle /\ seg = Idle /\ ta = Idle /\ pf = Idle

Inject ==
    /\ AhRunning(ah)
    /\ ah' = AhStep(ah)
    /\ UNCHANGED <<fm, seg, ta, pf, prev>>

\* The caller hands the returned text back to assign_hyperopt, same space.
Reinject ==
    /\ ah.pc = "returned"
    /\ prev.pc = "idle"
    /\ prev' = [pc |-> "kept", code |-> ah.code, out |-> ah.blackbox_code]
    /\ ah' = AhInit(ah.blackbox_code, ah.space)
    /\ UNCHANGED <<fm, seg, ta, pf>>

Next == Inject \/ Reinject

Spec == Init /\ [][Next]_vars

AhTerminal == ~AhRunning(ah)

\* f(<rewritten args>) for call c under mapping m, by the rewrite policy.
Rewritten(c, m) == Call(c.fn, Join(PolicyItems(c.form.args, m)))

\* C1: a newline-terminated statement PREFIX f(k1=v1, ..., kn=vn) with f a
\* key of the space comes back as PREFIX f(<rewritten args>) followed by a
\* single newline; the spec's example yields
\* "model = build(lr=0.01, momentum=0.9)\n".  (Stated for a space whose only
\* key is f, so that no pass for another name takes part.)
C1_SingleStatement ==
    (AhTerminal /\ prev.pc = "idle") =>
      /\ \A pre \in Prefixes, c \in Calls :
           ( /\ ah.code = OneCall(pre, c, <<NL>>)
             /\ Len(ah.space) = 1 /\ ah.space[1].k = c.fn
             /\ \A n \in 1..Len(c.form.args) : c.form.args[n].kw )
           => /\ ah.pc = "returned"
              /\ ah.blackbox_code
                   = pre \o Rewritten(c, Get(ah.space, c.fn)) \o <<NL>>
      /\ (ah.code = ExampleCode /\ ah.space = ExampleSpace)
           => (ah.pc = "returned" /\ ah.blackbox_code = ExampleResult)

\* C2: a call whose function name is no key of the space passes through with
\* its name and argument text as they were, also when the name ends with a
\* key's name.
C2_NonTargetUntouched ==
    (ah.pc = "returned" /\ prev.pc = "idle") =>
      \A c \in Calls :
        ( /\ Find(ah.code, CallText(c)) # -1
          /\ ~HasKey(ah.space, c.fn)
          /\ NL \notin {c.form.text[n] : n \in 1..Len(c.form.text)} )
        => Find(ah.blackbox_code, CallText(c)) # -1

\* Overridden values that rendering and parsing give back unchanged: here,
\* every literal that is no string, and every string without a quote.
StableVal(v) == v.t # "str" \/ \A n \in 1..Len(v.v) : v.v[n] \notin {SQ, DQ}
StableSpace(space) ==
    \A n \in 1..Len(space) :
      \A e \in 1..Len(space[n].val) : StableVal(space[n].val[e].val)

\* C9: with override values that are stable under rendering and parsing,
\* assign_hyperopt run on its own output, same space, returns that output.
C9_Idempotent ==
    (AhTerminal /\ prev.pc = "kept" /\ StableSpace(ah.space)) =>
      (ah.pc = "returned" /\ ah.blackbox_code = prev.out)

Reverse(s) == [n \in 1..Len(s) |-> s[Len(s) + 1 - n]]

\* C10: in a statement with calls to two different targets, one after the
\* other, each call gets its own function's overrides and nothing else is
\* touched, whichever target name is processed first.
C10_TwoTargets ==
    (AhTerminal /\ prev.pc = "idle") =>
      \A pre \in Prefixes, c \in Calls, d \in Calls :
        ( /\ ah.code = TwoCalls(pre, c, d, <<>>)
          /\ c.fn # d.fn
          /\ HasKey(ah.space, c.fn) /\ HasKey(ah.space, d.fn) )
        => /\ ah.pc = "returned"
           /\ ah.blackbox_code
                = pre \o Rewritten(c, Get(ah.space, c.fn)) \o Plus
                      \o Rewritten(d, Get(ah.space, d.fn)) \o <<NL>>
           /\ assign_hyperopt(ah.code, Reverse(ah.space)).blackbox_code
                = ah.blackbox_code

====
